---------------------------- MODULE Spec2Model ----------------------------
(***************************************************************************)
(* The round state machine of blackjack21 (Table), with the Hand, Player,  *)
(* Dealer and Deck objects it drives.  One action per public operation of  *)
(* Table; an action is the whole call, the cascade into _next_hand, dealer *)
(* play and scoring included.  The deck is a pile drawn from its end; a    *)
(* table starts with one of the piles of InitialDecks, and a shuffle       *)
(* leaves the pile in one of a bounded family of orders.                   *)
(***************************************************************************)
EXTENDS Integers, Sequences, FiniteSets, TLC

VARIABLES
    state,                \* Table._state
    players,              \* Table._players: per player its bet and its hands
    dealer,               \* Table._dealer's hand
    deck,                 \* Table._deck: undrawn and drawn cards
    current_player_idx,   \* Table._current_player_idx
    current_hand_idx,     \* Table._current_hand_idx
    initial_players_data, \* Table._initial_players_data (the bets)
    hit_soft_17,          \* Dealer's hit_soft_17 flag
    scored,               \* runs of _calculate_results in the current round
    rounds,               \* rounds started so far
    lastOp,               \* the operation called last
    lastErr,              \* how that call ended: "none", or the error raised
    lastMsg,              \* the message of that error
    returned              \* what that call returned, NoCard if nothing

vars == <<state, players, dealer, deck, current_player_idx, current_hand_idx,
          initial_players_data, hit_soft_17, scored, rounds, lastOp, lastErr,
          lastMsg, returned>>

-----------------------------------------------------------------------------
(* Bounds of the model *)

\* players at a table
MaxPlayers == 2

\* hands a player can hold: no split beyond it
MaxHands == 3

\* rounds played at a table
MaxRounds == 2

\* the orders a shuffle chooses from, beyond the order it found
MaxShuffles == 1

\* resets of the deck of a table
MaxResets == 1

-----------------------------------------------------------------------------
(* Cards *)

\* None as a cursor index
None == -1

\* None as the result of a hand
NoResult == "None"

\* Card.value with the face cards and the 10 counted as nothing
CardValue_TenIsZero(rank) ==
    CASE rank = "A" -> 11
      [] rank \in {"2", "3", "4", "5", "6", "7", "8", "9"} ->
            CHOOSE v \in 2..9 : <<"2", "3", "4", "5", "6", "7", "8", "9">>[v - 1] = rank
      [] OTHER -> 0

\* a card is its rank; Card.value as the Deck sets it
CardValue(rank) ==
    CASE rank = "A" -> 11
      [] rank = "2" -> 2
      [] rank = "3" -> 3
      [] rank = "4" -> 4
      [] rank = "5" -> 5
      [] rank = "6" -> 6
      [] rank = "7" -> 7
      [] rank = "8" -> 8
      [] rank = "9" -> 9
      [] OTHER -> 10

RECURSIVE SumValues(_)
SumValues(cards) ==
    IF cards = <<>> THEN 0
    ELSE CardValue(Head(cards)) + SumValues(Tail(cards))

RECURSIVE CountAces(_)
CountAces(cards) ==
    IF cards = <<>> THEN 0
    ELSE (IF CardValue(Head(cards)) = 11 THEN 1 ELSE 0) + CountAces(Tail(cards))

\* the loop of calculate_hand_total run at most once
AdjustAces_Once(total, aces) ==
    IF aces > 0 /\ total > 21 THEN total - 10 ELSE total

RECURSIVE AdjustAces(_, _)
AdjustAces(total, aces) ==
    IF aces > 0 /\ total > 21 THEN AdjustAces(total - 10, aces - 1)
    ELSE total

calculate_hand_total(cards) == AdjustAces(SumValues(cards), CountAces(cards))

RECURSIVE AcesLeft(_, _)
AcesLeft(total, aces) ==
    IF aces > 0 /\ total > 21 THEN AcesLeft(total - 10, aces - 1)
    ELSE aces

IsSoft(cards) == AcesLeft(SumValues(cards), CountAces(cards)) > 0

-----------------------------------------------------------------------------
(* Hand and Player *)

NewHand(bet) ==
    [hand |-> <<>>, bet |-> bet, stood |-> FALSE, surrendered |-> FALSE,
     result |-> NoResult]

HandTotal(h) == calculate_hand_total(h.hand)

HandBust(h) == HandTotal(h) > 21

HandStand(h) == h.stood \/ HandTotal(h) >= 21 \/ h.surrendered

add_card(h, card) == [h EXCEPT !.hand = Append(h.hand, card)]

stand_action(h) == [h EXCEPT !.stood = TRUE]

NewPlayer(bet) == [bet |-> bet, hands |-> <<NewHand(bet)>>]

-----------------------------------------------------------------------------
(* Dealer *)

DealerTotal(cards) == calculate_hand_total(cards)

DealerBust(cards) == DealerTotal(cards) > 21

DealerStand(cards, hs17) ==
    IF DealerTotal(cards) > 17 THEN TRUE
    ELSE IF DealerTotal(cards) = 17 THEN ~(IsSoft(cards) /\ hs17)
    ELSE FALSE

-----------------------------------------------------------------------------
(* Deck *)

DeckLen(d) == Len(d.cards)

\* Deck.draw_card on a pile that holds a card: the last card of the list
draw_card(d) ==
    [card |-> d.cards[Len(d.cards)],
     deck |-> [cards |-> SubSeq(d.cards, 1, Len(d.cards) - 1),
               drawn |-> Append(d.drawn, d.cards[Len(d.cards)]),
               resets |-> d.resets]]

Rotate(cards, k) ==
    IF Len(cards) = 0 THEN cards
    ELSE [i \in 1..Len(cards) |-> cards[((i - 1 + k) % Len(cards)) + 1]]

\* Deck.shuffle: the orders the shuffle may leave the pile in
Shuffles(cards) == {Rotate(cards, k) : k \in 0..MaxShuffles}

\* Deck.reset: the drawn cards go back to the pile, which is shuffled;
\* resets counts the resets of the deck so far
reset(d) ==
    {[cards |-> c, drawn |-> <<>>, resets |-> d.resets + 1] :
        c \in Shuffles(d.cards \o d.drawn)}

\* Deck.penetration: drawn cards over all cards, as numerator and denominator
penetration(d) == <<Len(d.drawn), Len(d.cards) + Len(d.drawn)>>

\* the test of _reset_round with the threshold included
PenetrationOver75_OrEqual(d) ==
    /\ penetration(d)[2] > 0
    /\ 4 * penetration(d)[1] >= 3 * penetration(d)[2]

\* the test of _reset_round: penetration > 0.75
PenetrationOver75(d) ==
    /\ penetration(d)[2] > 0
    /\ 4 * penetration(d)[1] > 3 * penetration(d)[2]

-----------------------------------------------------------------------------
(* Table: the round state as one record, and how a call ends *)

Tbl ==
    [state |-> state, players |-> players, dealer |-> dealer, deck |-> deck,
     cp |-> current_player_idx, ch |-> current_hand_idx, scored |-> scored]

\* no card returned
NoCard == "none"

Ok(t) == [t |-> t, err |-> "none", msg |-> "", ret |-> NoCard]

Fail(t, err, msg) == [t |-> t, err |-> err, msg |-> msg, ret |-> NoCard]

\* the calls of os that end without an error returning nothing
Returning_Nothing(os, card) == os

\* `return card` at the end of hit and double_down: the calls of os that end
\* without an error return the card
Returning(os, card) ==
    {IF o.err = "none" THEN [o EXCEPT !.ret = card] ELSE o : o \in os}

\* dealer_visible_hand showing the whole hand in every phase
dealer_visible_hand_Full(t) == t.dealer

\* Table.dealer_visible_hand: the whole hand once the dealer plays or the
\* round is over, otherwise the slice [:1] of the hand
dealer_visible_hand(t) ==
    IF t.state \in {"DEALER_TURN", "ROUND_OVER"}
    THEN t.dealer
    ELSE IF Len(t.dealer) = 0 THEN <<>> ELSE SubSeq(t.dealer, 1, 1)

\* Table.current_hand is not None
HasCurrentHand(t) ==
    /\ t.state = "PLAYERS_TURN"
    /\ t.cp # None
    /\ t.ch # None
    /\ t.cp < Len(t.players)
    /\ t.ch < Len(t.players[t.cp + 1].hands)

current_hand(t) == t.players[t.cp + 1].hands[t.ch + 1]

AllHandsStand(t) ==
    \A p \in 1..Len(t.players) :
        \A h \in 1..Len(t.players[p].hands) : HandStand(t.players[p].hands[h])

\* _draw_card without the reset and the second draw
_draw_card_NoRetry(d) ==
    IF DeckLen(d) > 0
    THEN {[card |-> draw_card(d).card, deck |-> draw_card(d).deck, err |-> "none"]}
    ELSE {[card |-> "", deck |-> d, err |-> "EmptyDeckError"]}

\* Table._draw_card: the cards it can return with the deck left behind, or
\* the error it raises
_draw_card(d) ==
    IF DeckLen(d) > 0
    THEN {[card |-> draw_card(d).card, deck |-> draw_card(d).deck, err |-> "none"]}
    ELSE {IF DeckLen(d2) = 0
          THEN [card |-> "", deck |-> d2, err |-> "RuntimeError"]
          ELSE [card |-> draw_card(d2).card, deck |-> draw_card(d2).deck,
                err |-> "none"] :
             d2 \in reset(d)}

\* Dealer.play(deck): draws straight from the deck until the dealer stands
RECURSIVE DealerPlay(_, _, _)
DealerPlay(cards, d, hs17) ==
    IF DealerStand(cards, hs17)
    THEN [dealer |-> cards, deck |-> d, err |-> "none"]
    ELSE IF DeckLen(d) = 0
    THEN [dealer |-> cards, deck |-> d, err |-> "EmptyDeckError"]
    ELSE DealerPlay(Append(cards, draw_card(d).card), draw_card(d).deck, hs17)

\* is_blackjack without the test that the player has not split
is_blackjack_AnyPlayer(h, player_has_split) ==
    Len(h.hand) = 2 /\ HandTotal(h) = 21

\* is_blackjack of Table._calculate_results
is_blackjack(h, player_has_split) ==
    Len(h.hand) = 2 /\ HandTotal(h) = 21 /\ ~player_has_split

\* the comparison of totals with a tie given to the player
CompareTotals_TieWins(h, dealer_total) ==
    IF HandTotal(h) >= dealer_total THEN "PLAYER_WIN" ELSE "DEALER_WIN"

\* the comparison of totals that ends the loop body of Table._calculate_results
CompareTotals(h, dealer_total) ==
    IF HandTotal(h) > dealer_total THEN "PLAYER_WIN"
    ELSE IF HandTotal(h) < dealer_total THEN "DEALER_WIN"
    ELSE "PUSH"

\* the body of the loop of Table._calculate_results for one hand
HandResult(h, player_has_split, dealer_total, dealer_is_bust, dealer_has_blackjack) ==
    IF h.surrendered THEN "SURRENDER"
    ELSE IF HandBust(h) THEN "PLAYER_BUST"
    ELSE IF is_blackjack(h, player_has_split)
    THEN (IF dealer_has_blackjack THEN "PUSH" ELSE "BLACKJACK")
    ELSE IF dealer_has_blackjack THEN "DEALER_WIN"
    ELSE IF dealer_is_bust THEN "DEALER_BUST"
    ELSE CompareTotals(h, dealer_total)

_calculate_results(t) ==
    LET dealer_total == DealerTotal(t.dealer)
        dealer_is_bust == DealerBust(t.dealer)
        dealer_has_blackjack == Len(t.dealer) = 2 /\ dealer_total = 21
        Score(pl) ==
            [pl EXCEPT !.hands =
                [h \in 1..Len(pl.hands) |->
                    [pl.hands[h] EXCEPT !.result =
                        HandResult(pl.hands[h], Len(pl.hands) > 1, dealer_total,
                                   dealer_is_bust, dealer_has_blackjack)]]]
    IN  [t EXCEPT !.players = [p \in 1..Len(t.players) |-> Score(t.players[p])],
                  !.scored = @ + 1]

\* the end of a round taking the table back to INIT
EndRound_ToInit(t) == [t EXCEPT !.state = "INIT"]

\* the assignment of ROUND_OVER that ends a round
EndRound(t) == [t EXCEPT !.state = "ROUND_OVER"]

\* the end of the players' turn with the dealer's play left out
_play_dealer_Skipped(t) ==
    IF ~AllHandsStand(t)
    THEN {Fail(t, "PlayDealerFailure", "")}
    ELSE {Ok(EndRound(_calculate_results(t)))}

_play_dealer_and_end_game(t) ==
    IF ~AllHandsStand(t)
    THEN {Fail(t, "PlayDealerFailure", "")}
    ELSE LET o == DealerPlay(t.dealer, t.deck, hit_soft_17)
             t1 == [t EXCEPT !.dealer = o.dealer, !.deck = o.deck]
         IN  IF o.err # "none"
             THEN {Fail(t1, o.err, "")}
             ELSE {Ok(EndRound(_calculate_results(t1)))}

\* the two loops of Table._next_hand, from the cursor as it stands
RECURSIVE ScanHands(_)
ScanHands(t) ==
    IF t.cp < Len(t.players)
    THEN IF t.ch < Len(t.players[t.cp + 1].hands)
         THEN IF ~HandStand(current_hand(t))
              THEN {Ok(t)}
              ELSE ScanHands([t EXCEPT !.ch = @ + 1])
         ELSE ScanHands([t EXCEPT !.cp = @ + 1, !.ch = 0])
    ELSE _play_dealer_and_end_game(
             [t EXCEPT !.cp = None, !.ch = None, !.state = "DEALER_TURN"])

\* _next_hand leaving the cursor where it is
_next_hand_Stay(t) == {Ok(t)}

_next_hand(t) ==
    IF t.cp = None \/ t.ch = None
    THEN {Ok(t)}
    ELSE ScanHands([t EXCEPT !.ch = @ + 1])

-----------------------------------------------------------------------------
(* Table: the public operations, each the set of ways the call can end *)

\* _reset_round keeping the players of the round that ended
_reset_round_KeepPlayers(t) ==
    {[t EXCEPT !.dealer = <<>>,
               !.deck = d,
               !.cp = None,
               !.ch = None] :
        d \in IF PenetrationOver75(t.deck) THEN reset(t.deck) ELSE {t.deck}}

\* Table._reset_round: the tables it can leave, one per shuffle
_reset_round(t) ==
    {[t EXCEPT !.dealer = <<>>,
               !.players = [p \in 1..Len(initial_players_data) |->
                               NewPlayer(initial_players_data[p])],
               !.deck = d,
               !.cp = None,
               !.ch = None] :
        d \in IF PenetrationOver75(t.deck) THEN reset(t.deck) ELSE {t.deck}}

\* one pass of the deal: a card to every hand from (p, h) on, then the dealer
RECURSIVE DealPass(_, _, _)
DealPass(t, p, h) ==
    IF p <= Len(t.players) /\ h > Len(t.players[p].hands)
    THEN DealPass(t, p + 1, 1)
    ELSE IF DeckLen(t.deck) = 0
    THEN Fail(t, "EmptyDeckError", "")
    ELSE IF p > Len(t.players)
    THEN Ok([t EXCEPT !.dealer = Append(t.dealer, draw_card(t.deck).card),
                      !.deck = draw_card(t.deck).deck])
    ELSE DealPass([t EXCEPT !.players[p].hands[h] =
                                add_card(t.players[p].hands[h], draw_card(t.deck).card),
                            !.deck = draw_card(t.deck).deck], p, h + 1)

\* start_game with the dealer at 21, the results left uncomputed
DealerHas21_Unscored(t) ==
    {Ok([t EXCEPT !.state = "ROUND_OVER"])}

\* start_game with the dealer's two cards at 21: the players' turn is skipped
DealerHas21(t) ==
    {Ok(EndRound(_calculate_results([t EXCEPT !.state = "DEALER_TURN"])))}

\* start_game leaving the cursor on the first hand whatever it holds
BeginPlayersTurn_NoAdvance(t) ==
    {Ok([t EXCEPT !.state = "PLAYERS_TURN"])}

\* start_game otherwise: the players' turn begins at the first hand to play
BeginPlayersTurn(t) ==
    LET t1 == [t EXCEPT !.state = "PLAYERS_TURN"]
    IN  IF HasCurrentHand(t1) /\ HandStand(current_hand(t1))
        THEN _next_hand(t1)
        ELSE {Ok(t1)}

\* start_game taking no notice of the dealer's two cards
AfterDeal_NoShortcut(t0) ==
    BeginPlayersTurn([t0 EXCEPT !.cp = 0, !.ch = 0])

\* start_game skipping the players' turn from a dealer's total of 17 on
AfterDeal_From17(t0) ==
    LET t == [t0 EXCEPT !.cp = 0, !.ch = 0]
    IN  IF DealerTotal(t.dealer) >= 17 THEN DealerHas21(t) ELSE BeginPlayersTurn(t)

\* start_game skipping the players' turn when the dealer holds 20 or 21
AfterDeal_ShortcutOn20(t0) ==
    LET t == [t0 EXCEPT !.cp = 0, !.ch = 0]
    IN  IF DealerTotal(t.dealer) >= 20 THEN DealerHas21(t) ELSE BeginPlayersTurn(t)

\* start_game from the cursor assignment on, the cards dealt
AfterDeal(t0) ==
    LET t == [t0 EXCEPT !.cp = 0, !.ch = 0]
    IN  IF DealerTotal(t.dealer) = 21 THEN DealerHas21(t) ELSE BeginPlayersTurn(t)

\* the deal stopping after its first pass
Deal_OnePass(t) ==
    LET o1 == DealPass([t EXCEPT !.scored = 0], 1, 1)
    IN  IF o1.err # "none" THEN {o1} ELSE AfterDeal(o1.t)

\* the deal with the first player's second card and the dealer's first
\* card exchanged
Deal_Exchanged(t) ==
    LET o1 == DealPass([t EXCEPT !.scored = 0], 1, 1)
        o2 == DealPass(o1.t, 1, 1)
        t2 == o2.t
    IN  IF o1.err # "none" THEN {o1}
        ELSE IF o2.err # "none" THEN {o2}
        ELSE AfterDeal([t2 EXCEPT
                 !.dealer = <<t2.players[1].hands[1].hand[2], t2.dealer[2]>>,
                 !.players[1].hands[1].hand = <<t2.players[1].hands[1].hand[1],
                                                t2.dealer[1]>>])

\* start_game from the deal on, the deck holding the cards it needs
Deal(t) ==
    LET o1 == DealPass([t EXCEPT !.scored = 0], 1, 1)
        o2 == DealPass(o1.t, 1, 1)
    IN  IF o1.err # "none" THEN {o1}
        ELSE IF o2.err # "none" THEN {o2}
        ELSE AfterDeal(o2.t)

\* start_game dealing without the check of the deck
CheckDeckAndDeal_Unchecked(t1) == Deal(t1)

\* start_game from the check of the deck on
CheckDeckAndDeal(t1) ==
    LET cards_needed == (Len(t1.players) + 1) * 2
    IN  IF DeckLen(t1.deck) < cards_needed
        THEN UNION {IF DeckLen(d) < cards_needed
                    THEN {Fail([t1 EXCEPT !.deck = d], "InvalidActionError",
                               "not enough cards")}
                    ELSE Deal([t1 EXCEPT !.deck = d]) :
                       d \in reset(t1.deck)}
        ELSE Deal(t1)

start_game(t) ==
    IF Len(t.players) = 0
    THEN {Ok(t)}
    ELSE IF t.state \notin {"INIT", "ROUND_OVER"}
    THEN {Fail(t, "InvalidActionError", "round in progress")}
    ELSE IF t.state = "ROUND_OVER"
    THEN UNION {CheckDeckAndDeal(t1) : t1 \in _reset_round(t)}
    ELSE CheckDeckAndDeal(t)

\* a call in the wrong phase ignored instead of refused
NotPlayersTurn_Ignored(t, what) == Ok(t)

\* the refusal of a player's operation outside PLAYERS_TURN
NotPlayersTurn(t, what) ==
    Fail(t, "InvalidActionError", what \o ": not the players' turn")

NoActiveHand(t, what) ==
    Fail(t, "InvalidActionError", what \o ": no active hand")

SetCurrent(t, h) == [t EXCEPT !.players[t.cp + 1].hands[t.ch + 1] = h]

hit(t) ==
    IF t.state # "PLAYERS_TURN" THEN {NotPlayersTurn(t, "hit")}
    ELSE IF ~HasCurrentHand(t) THEN {NoActiveHand(t, "hit")}
    ELSE IF HandStand(current_hand(t))
    THEN {Fail(t, "PlayFailure", "hit (hand is already standing)")}
    ELSE UNION {IF d.err # "none"
                THEN {Fail([t EXCEPT !.deck = d.deck], d.err, "")}
                ELSE LET t1 == SetCurrent([t EXCEPT !.deck = d.deck],
                                          add_card(current_hand(t), d.card))
                     IN  Returning(IF HandStand(current_hand(t1))
                                   THEN _next_hand(t1)
                                   ELSE {Ok(t1)}, d.card) :
                   d \in _draw_card(t.deck)}

\* stand moving on without standing the hand
stand_NoAction(t) ==
    IF t.state # "PLAYERS_TURN" THEN {NotPlayersTurn(t, "stand")}
    ELSE IF ~HasCurrentHand(t) THEN {NoActiveHand(t, "stand")}
    ELSE _next_hand(t)

stand(t) ==
    IF t.state # "PLAYERS_TURN" THEN {NotPlayersTurn(t, "stand")}
    ELSE IF ~HasCurrentHand(t) THEN {NoActiveHand(t, "stand")}
    ELSE _next_hand(SetCurrent(t, stand_action(current_hand(t))))

\* the test for a hand played on that never finds one
NotFirstTurn_Never(h) == FALSE

\* the test of surrender and double_down: the hand is past its first turn
NotFirstTurn(h) == Len(h.hand) # 2

\* the test for a split that never finds one
HasSplit_Never(t) == FALSE

\* the test of surrender: the current player has split
HasSplit(t) == Len(t.players[t.cp + 1].hands) > 1

surrender(t) ==
    IF t.state # "PLAYERS_TURN" THEN {NotPlayersTurn(t, "surrender")}
    ELSE IF ~HasCurrentHand(t) THEN {NoActiveHand(t, "surrender")}
    ELSE IF HandStand(current_hand(t))
    THEN {Fail(t, "PlayFailure", "surrender (hand is already standing)")}
    ELSE IF NotFirstTurn(current_hand(t))
    THEN {Fail(t, "PlayFailure", "surrender (not on first turn)")}
    ELSE IF HasSplit(t)
    THEN {Fail(t, "PlayFailure", "surrender (not allowed after split)")}
    ELSE _next_hand(SetCurrent(t,
             stand_action([current_hand(t) EXCEPT !.surrendered = TRUE])))

\* double_down that leaves the doubled hand open
double_down_NoStand(t) ==
    IF t.state # "PLAYERS_TURN" THEN {NotPlayersTurn(t, "double down")}
    ELSE IF ~HasCurrentHand(t) THEN {NoActiveHand(t, "double down")}
    ELSE IF HandStand(current_hand(t))
    THEN {Fail(t, "PlayFailure", "double down (hand is already standing)")}
    ELSE IF NotFirstTurn(current_hand(t))
    THEN {Fail(t, "PlayFailure", "double down (not on first turn)")}
    ELSE UNION {IF d.err # "none"
                THEN {Fail([t EXCEPT !.deck = d.deck], d.err, "")}
                ELSE LET t1 == SetCurrent([t EXCEPT !.deck = d.deck],
                                   add_card([current_hand(t) EXCEPT !.bet = @ * 2],
                                            d.card))
                     IN  Returning(IF HandStand(current_hand(t1))
                                   THEN _next_hand(t1)
                                   ELSE {Ok(t1)}, d.card) :
                   d \in _draw_card(t.deck)}

double_down(t) ==
    IF t.state # "PLAYERS_TURN" THEN {NotPlayersTurn(t, "double down")}
    ELSE IF ~HasCurrentHand(t) THEN {NoActiveHand(t, "double down")}
    ELSE IF HandStand(current_hand(t))
    THEN {Fail(t, "PlayFailure", "double down (hand is already standing)")}
    ELSE IF NotFirstTurn(current_hand(t))
    THEN {Fail(t, "PlayFailure", "double down (not on first turn)")}
    ELSE UNION {IF d.err # "none"
                THEN {Fail([t EXCEPT !.deck = d.deck], d.err, "")}
                ELSE Returning(_next_hand(SetCurrent([t EXCEPT !.deck = d.deck],
                         stand_action(add_card(
                             [current_hand(t) EXCEPT !.bet = @ * 2], d.card)))),
                         d.card) :
                   d \in _draw_card(t.deck)}

\* list.insert one place too early
InsertAt_Before(s, i, e) == SubSeq(s, 1, i - 2) \o <<e>> \o SubSeq(s, i - 1, Len(s))

\* list.insert(i - 1, e), the positions counted from 1
InsertAt(s, i, e) == SubSeq(s, 1, i - 1) \o <<e>> \o SubSeq(s, i, Len(s))

\* the test for split Aces that never finds them
IsAceSplit_Never(split_rank) == FALSE

\* the test of split for split Aces
IsAceSplit(split_rank) == split_rank = "A"

\* split from the two draws on: card1 and card2 drawn, the deck left as d
SplitHands(t, card1, card2, d) ==
    LET hand == current_hand(t)
        split_rank == hand.hand[1]
        split_card == hand.hand[Len(hand.hand)]
        popped == [hand EXCEPT !.hand = SubSeq(hand.hand, 1, Len(hand.hand) - 1)]
        new_hand == add_card(NewHand(hand.bet), split_card)
        hand1 == add_card(popped, card1)
        new_hand1 == add_card(new_hand, card2)
        aces == IsAceSplit(split_rank)
        hands1 == InsertAt([t.players[t.cp + 1].hands EXCEPT ![t.ch + 1] =
                               IF aces THEN stand_action(hand1) ELSE hand1],
                           t.ch + 2,
                           IF aces THEN stand_action(new_hand1) ELSE new_hand1)
        t1 == [t EXCEPT !.deck = d, !.players[t.cp + 1].hands = hands1]
    IN  IF aces THEN _next_hand(t1)
        ELSE IF HandStand(hand1) THEN _next_hand(t1)
        ELSE {Ok(t1)}

split(t) ==
    IF t.state # "PLAYERS_TURN" THEN {NotPlayersTurn(t, "split")}
    ELSE IF ~HasCurrentHand(t) THEN {NoActiveHand(t, "split")}
    ELSE IF \/ HandStand(current_hand(t))
            \/ Len(current_hand(t).hand) # 2
            \/ CardValue(current_hand(t).hand[1]) # CardValue(current_hand(t).hand[2])
    THEN {Fail(t, "PlayFailure", "split")}
    ELSE UNION {IF d1.err # "none"
                THEN {Fail([t EXCEPT !.deck = d1.deck], d1.err, "")}
                ELSE UNION {IF d2.err # "none"
                            THEN {Fail([t EXCEPT !.deck = d2.deck], d2.err, "")}
                            ELSE SplitHands(t, d1.card, d2.card, d2.deck) :
                               d2 \in _draw_card(d1.deck)} :
                   d1 \in _draw_card(t.deck)}

-----------------------------------------------------------------------------
(* The state machine *)

RECURSIVE Reverse(_)
Reverse(cards) ==
    IF cards = <<>> THEN <<>>
    ELSE Append(Reverse(Tail(cards)), Head(cards))

\* the decks a table is built with, each in the order its cards are drawn
InitialDecks ==
    {<<"10", "9", "7", "8", "5">>,
     <<"10", "8", "9", "7", "K">>,
     <<"A", "10", "K", "9">>,
     <<"A", "A", "K", "Q">>,
     <<"A", "10", "A", "7", "K", "Q">>,
     <<"A", "10", "A", "5", "K", "Q">>,
     <<"2", "4", "3", "5", "6">>,
     <<"K", "6", "10", "A", "5", "9", "8", "7">>,
     <<"10", "A", "9", "8", "A", "8", "K", "Q">>,
     <<"A", "10", "9", "A", "5", "8", "K", "Q">>,
     <<"8", "10", "8", "7", "8", "3", "2", "6", "4">>}

InitialBet(p) == 5 * p

Init ==
    /\ state = "INIT"
    /\ \E n \in 0..MaxPlayers :
          /\ initial_players_data = [p \in 1..n |-> InitialBet(p)]
          /\ players = [p \in 1..n |-> NewPlayer(InitialBet(p))]
    /\ dealer = <<>>
    /\ \E order \in InitialDecks : deck = [cards |-> Reverse(order), drawn |-> <<>>, resets |-> 0]
    /\ current_player_idx = None
    /\ current_hand_idx = None
    /\ hit_soft_17 \in BOOLEAN
    /\ scored = 0
    /\ rounds = 0
    /\ lastOp = "none"
    /\ lastErr = "none"
    /\ lastMsg = ""
    /\ returned = NoCard

\* the call `op` ends as `o`
Ends(op, o) ==
    /\ o.t.deck.resets <= MaxResets
    /\ state' = o.t.state
    /\ players' = o.t.players
    /\ dealer' = o.t.dealer
    /\ deck' = o.t.deck
    /\ current_player_idx' = o.t.cp
    /\ current_hand_idx' = o.t.ch
    /\ scored' = o.t.scored
    /\ lastOp' = op
    /\ lastErr' = o.err
    /\ lastMsg' = o.msg
    /\ returned' = o.ret
    /\ UNCHANGED <<initial_players_data, hit_soft_17>>

StartGame ==
    /\ state = "ROUND_OVER" => rounds < MaxRounds
    /\ \E o \in start_game(Tbl) :
          /\ Ends("start_game", o)
          /\ rounds' = IF o.err = "none" /\ Len(players) > 0 THEN rounds + 1 ELSE rounds

Hit ==
    /\ \E o \in hit(Tbl) : Ends("hit", o)
    /\ UNCHANGED rounds

Stand ==
    /\ \E o \in stand(Tbl) : Ends("stand", o)
    /\ UNCHANGED rounds

Surrender ==
    /\ \E o \in surrender(Tbl) : Ends("surrender", o)
    /\ UNCHANGED rounds

DoubleDown ==
    /\ \E o \in double_down(Tbl) : Ends("double_down", o)
    /\ UNCHANGED rounds

Split ==
    /\ HasCurrentHand(Tbl) => Len(players[current_player_idx + 1].hands) < MaxHands
    /\ \E o \in split(Tbl) : Ends("split", o)
    /\ UNCHANGED rounds

Next == StartGame \/ Hit \/ Stand \/ Surrender \/ DoubleDown \/ Split

Spec == Init /\ [][Next]_vars

-----------------------------------------------------------------------------
(* The properties *)

\* the (player, hand) positions of the table, counted from 1
HandIdx ==
    UNION {{<<p, h>> : h \in 1..Len(players[p].hands)} : p \in 1..Len(players)}

HandAt(ph) == players[ph[1]].hands[ph[2]]

\* the position of the cursor, counted from 1
Cursor == <<current_player_idx + 1, current_hand_idx + 1>>

LexLeq(a, b) == a[1] < b[1] \/ (a[1] = b[1] /\ a[2] <= b[2])

NonStandingHands == {ph \in HandIdx : ~HandStand(HandAt(ph))}

OriginalBet(p) == initial_players_data[p]

PhaseRank(s) ==
    CASE s = "INIT" -> 0
      [] s = "PLAYERS_TURN" -> 1
      [] s = "DEALER_TURN" -> 2
      [] s = "ROUND_OVER" -> 3

PlayerOps == {"hit", "stand", "double_down", "split", "surrender"}

\* C1: in PLAYERS_TURN the cursor is on the first hand, in the order of
\* (player index, hand index), that is not standing; the phase is never
\* PLAYERS_TURN with every hand standing.
C1_TurnOrder ==
    state = "PLAYERS_TURN" =>
        /\ NonStandingHands # {}
        /\ current_player_idx # None
        /\ current_hand_idx # None
        /\ Cursor \in NonStandingHands
        /\ \A ph \in NonStandingHands : LexLeq(Cursor, ph)

\* the second player is to play, the first player's hand standing
C1_Witness ==
    /\ state = "PLAYERS_TURN"
    /\ current_player_idx = 1
    /\ HandStand(players[1].hands[1])

\* C2: no hand has a result in INIT or PLAYERS_TURN, every hand has one in
\* ROUND_OVER, and the results of a round are computed once: nothing but the
\* next start_game touches the hands of a table in ROUND_OVER.
C2_ResultOnce ==
    /\ [](state \in {"INIT", "PLAYERS_TURN"} =>
            /\ \A ph \in HandIdx : HandAt(ph).result = NoResult
            /\ scored = 0)
    /\ [](state = "ROUND_OVER" =>
            /\ \A ph \in HandIdx : HandAt(ph).result # NoResult
            /\ scored = 1)
    /\ [][state = "ROUND_OVER" /\ lastOp' # "start_game" => players' = players]_vars

\* a round over with a split hand, every hand scored, and a call refused since
C2_Witness ==
    /\ state = "ROUND_OVER"
    /\ \E p \in 1..Len(players) : Len(players[p].hands) = 2
    /\ \A ph \in HandIdx : HandAt(ph).result # NoResult
    /\ lastErr = "InvalidActionError"

\* the rules of the results in their order of priority, each a condition and
\* the result it gives
ResultRules(h, hand_count) ==
    LET total == calculate_hand_total(h.hand)
        dealer_total == calculate_hand_total(dealer)
        dealer_natural == Len(dealer) = 2 /\ dealer_total = 21
        natural == Len(h.hand) = 2 /\ total = 21 /\ hand_count = 1
    IN  << <<h.surrendered, "SURRENDER">>,
           <<total > 21, "PLAYER_BUST">>,
           <<natural /\ dealer_natural, "PUSH">>,
           <<natural, "BLACKJACK">>,
           <<dealer_natural, "DEALER_WIN">>,
           <<dealer_total > 21, "DEALER_BUST">>,
           <<total > dealer_total, "PLAYER_WIN">>,
           <<total < dealer_total, "DEALER_WIN">>,
           <<TRUE, "PUSH">> >>

FirstMatch(rules) ==
    rules[CHOOSE i \in 1..Len(rules) :
              rules[i][1] /\ \A j \in 1..(i - 1) : ~rules[j][1]][2]

\* C3: at ROUND_OVER the result of every hand is the one given by the first
\* rule of the priority list that the hand and the dealer's hand match.
C3_ResultPriority ==
    state = "ROUND_OVER" =>
        \A ph \in HandIdx :
            HandAt(ph).result =
                FirstMatch(ResultRules(HandAt(ph), Len(players[ph[1]].hands)))

\* a round over with a bust hand and the dealer bust as well
C3_Witness ==
    /\ state = "ROUND_OVER"
    /\ calculate_hand_total(dealer) > 21
    /\ \E ph \in HandIdx : /\ calculate_hand_total(HandAt(ph).hand) > 21
                           /\ HandAt(ph).result = "PLAYER_BUST"

\* C4: at ROUND_OVER a hand scored BLACKJACK holds two cards totalling 21 and
\* is its player's only hand; a two-card 21 of a player who has split is not
\* scored BLACKJACK, and is scored PLAYER_WIN when the dealer stands lower.
C4_BlackjackUnsplit ==
    state = "ROUND_OVER" =>
        \A ph \in HandIdx :
            LET h == HandAt(ph)
                two_card_21 == Len(h.hand) = 2 /\ calculate_hand_total(h.hand) = 21
                hand_count == Len(players[ph[1]].hands)
            IN  /\ h.result = "BLACKJACK" => two_card_21 /\ hand_count = 1
                /\ two_card_21 /\ hand_count > 1 =>
                      /\ h.result # "BLACKJACK"
                      /\ calculate_hand_total(dealer) < 21 => h.result = "PLAYER_WIN"

\* split Aces, one of them given a ten, scored against a dealer standing lower
C4_Witness ==
    /\ state = "ROUND_OVER"
    /\ calculate_hand_total(dealer) < 21
    /\ \E ph \in HandIdx : /\ Len(players[ph[1]].hands) > 1
                           /\ HandAt(ph).hand[1] = "A"
                           /\ Len(HandAt(ph).hand) = 2
                           /\ calculate_hand_total(HandAt(ph).hand) = 21
                           /\ HandAt(ph).result = "PLAYER_WIN"

\* C5: the phase never moves backwards along INIT, PLAYERS_TURN, DEALER_TURN,
\* ROUND_OVER, except that start_game called in ROUND_OVER begins a new round;
\* nothing else leaves ROUND_OVER and nothing goes back to INIT.
C5_PhaseForward ==
    [][\/ PhaseRank(state') >= PhaseRank(state)
       \/ /\ lastOp' = "start_game"
          /\ state = "ROUND_OVER"
          /\ state' # "INIT"]_vars

\* a second round, begun from ROUND_OVER, played to its end
C5_Witness ==
    /\ rounds = 2
    /\ state = "ROUND_OVER"
    /\ lastOp \in PlayerOps

\* C6: no call ends with the phase left at DEALER_TURN.
C6_DealerTurnTransient == state # "DEALER_TURN"

\* the state of the round: the phase, the cursor, the players' hands and
\* the dealer's hand
RoundState == <<state, current_player_idx, current_hand_idx, players, dealer>>

\* C7: a call that fails leaves the state of the round as it found it.
C7_FailureAtomic == [][lastErr' # "none" => RoundState' = RoundState]_vars

\* C8: hit, stand, double_down, split and surrender called in INIT or
\* ROUND_OVER, and start_game called in PLAYERS_TURN, fail with
\* InvalidActionError and change nothing.
C8_WrongPhase ==
    [][(\/ lastOp' \in PlayerOps /\ state \in {"INIT", "ROUND_OVER"}
        \/ lastOp' = "start_game" /\ state = "PLAYERS_TURN") =>
            /\ lastErr' = "InvalidActionError"
            /\ UNCHANGED <<state, players, dealer, deck, current_player_idx,
                           current_hand_idx, scored, rounds>>]_vars

\* split refused once the round is over
C8_Witness ==
    /\ state = "ROUND_OVER"
    /\ lastOp = "split"
    /\ lastErr = "InvalidActionError"

\* where the hand at (p, h) stands after a step: a split moves the hands
\* behind the cursor one place on
HandAfter(p, h) ==
    IF /\ Len(players'[p].hands) > Len(players[p].hands)
       /\ p = current_player_idx + 1
       /\ h > current_hand_idx + 1
    THEN h + 1
    ELSE h

\* C9: within a round every bet is the player's original bet or twice it,
\* and a bet changes only when double_down succeeds on that hand, from the
\* original bet to twice it.
C9_BetDoubledOnce ==
    /\ [](\A ph \in HandIdx :
             HandAt(ph).bet \in {OriginalBet(ph[1]), 2 * OriginalBet(ph[1])})
    /\ [][lastOp' # "start_game" =>
             \A ph \in HandIdx :
                 LET before == HandAt(ph).bet
                     after == players'[ph[1]].hands[HandAfter(ph[1], ph[2])].bet
                 IN  after # before =>
                         /\ lastOp' = "double_down"
                         /\ lastErr' = "none"
                         /\ ph = Cursor
                         /\ before = OriginalBet(ph[1])
                         /\ after = 2 * before]_vars

\* a hand but for its result
HandPlay(h) == <<h.hand, h.bet, h.stood, h.surrendered>>

\* what a successful split does to the acting player's hands
SplitEffect ==
    LET p == current_player_idx + 1
        h == current_hand_idx + 1
        old == players[p].hands[h]
        first == players'[p].hands[h]
        second == players'[p].hands[h + 1]
    IN  /\ Len(players') = Len(players)
        /\ Len(players'[p].hands) = Len(players[p].hands) + 1
        /\ Len(first.hand) = 2
        /\ Len(second.hand) = 2
        /\ first.hand[1] = old.hand[1]
        /\ second.hand[1] = old.hand[2]
        /\ DeckLen(deck) >= 2 =>
              /\ first.hand[2] = deck.cards[DeckLen(deck)]
              /\ second.hand[2] = deck.cards[DeckLen(deck) - 1]
        /\ first.bet = OriginalBet(p)
        /\ second.bet = OriginalBet(p)
        /\ \A k \in 1..Len(players[p].hands) :
              k # h => HandPlay(players'[p].hands[HandAfter(p, k)])
                           = HandPlay(players[p].hands[k])

\* C10 as stated: after a successful split the player has one hand more, the
\* new hand right after the split one, each of the two with one of the
\* original cards and one card drawn, both with the original bet; the other
\* players' hands are unchanged.
C10_SplitOthersUnchanged ==
    [][lastOp' = "split" /\ lastErr' = "none" =>
          /\ SplitEffect
          /\ \A q \in 1..Len(players) :
                q # current_player_idx + 1 => players'[q] = players[q]]_vars

\* C10 amended: the other players' hands keep their cards, bets and flags,
\* and keep their results unless the split ends the round, which scores them.
C10_SplitEffect ==
    [][lastOp' = "split" /\ lastErr' = "none" =>
          /\ SplitEffect
          /\ \A q \in 1..Len(players) :
                q # current_player_idx + 1 =>
                    /\ Len(players'[q].hands) = Len(players[q].hands)
                    /\ \A k \in 1..Len(players[q].hands) :
                          /\ HandPlay(players'[q].hands[k]) = HandPlay(players[q].hands[k])
                          /\ state' # "ROUND_OVER" =>
                                players'[q].hands[k].result = players[q].hands[k].result]_vars

\* the second of two players has split and the split has ended the round
C10_Witness ==
    /\ lastOp = "split"
    /\ lastErr = "none"
    /\ state = "ROUND_OVER"
    /\ Len(players) = 2
    /\ Len(players[2].hands) = 2

\* the hands of split Aces: a hand that opens with an Ace and shares its
\* player with another hand
SplitAceHands ==
    {ph \in HandIdx : Len(players[ph[1]].hands) > 1 /\ HandAt(ph).hand[1] = "A"}

\* C11: a successful split of two Aces leaves both hands standing and the
\* cursor off them; from then on, until the round ends, each keeps its two
\* cards and the cursor is never on it.
C11_SplitAcesStand ==
    /\ [][(/\ lastOp' = "split"
           /\ lastErr' = "none"
           /\ players[Cursor[1]].hands[Cursor[2]].hand[1] = "A") =>
              \A k \in {Cursor[2], Cursor[2] + 1} :
                  /\ players'[Cursor[1]].hands[k].stood
                  /\ Len(players'[Cursor[1]].hands[k].hand) = 2
                  /\ state' = "PLAYERS_TURN" =>
                        <<current_player_idx' + 1, current_hand_idx' + 1>> # <<Cursor[1], k>>]_vars
    /\ [](\A ph \in SplitAceHands :
             /\ HandAt(ph).stood
             /\ Len(HandAt(ph).hand) = 2
             /\ state = "PLAYERS_TURN" => Cursor # ph)
    /\ [][lastOp' # "start_game" =>
             \A ph \in SplitAceHands : players'[ph[1]].hands[ph[2]].hand = HandAt(ph).hand]_vars

\* the first player has split Aces and the second player has hit since
C11_Witness ==
    /\ state = "PLAYERS_TURN"
    /\ lastOp = "hit"
    /\ lastErr = "none"
    /\ current_player_idx = 1
    /\ <<1, 1>> \in SplitAceHands
    /\ <<1, 2>> \in SplitAceHands

\* C12: surrender succeeds only on a current hand of two cards that is its
\* player's only hand, and fails with PlayFailure once the player has split;
\* so a surrendered hand has two cards, stands, is its player's only hand,
\* and has no result but SURRENDER, which it has once the round is over.
C12_SurrenderFirstTurn ==
    /\ [][lastOp' = "surrender" =>
             /\ (lastErr' = "none" =>
                    /\ state = "PLAYERS_TURN"
                    /\ Len(players[Cursor[1]].hands) = 1
                    /\ Len(players[Cursor[1]].hands[Cursor[2]].hand) = 2
                    /\ players'[Cursor[1]].hands[Cursor[2]].surrendered)
             /\ (state = "PLAYERS_TURN" /\ Len(players[Cursor[1]].hands) > 1 =>
                    /\ lastErr' = "PlayFailure"
                    /\ RoundState' = RoundState)]_vars
    /\ [](\A ph \in HandIdx :
             HandAt(ph).surrendered =>
                 /\ Len(HandAt(ph).hand) = 2
                 /\ HandStand(HandAt(ph))
                 /\ Len(players[ph[1]].hands) = 1
                 /\ HandAt(ph).result \in {NoResult, "SURRENDER"}
                 /\ state = "ROUND_OVER" => HandAt(ph).result = "SURRENDER")

\* surrender refused on a hand fit for it but for the split that made it
C12_Witness ==
    /\ state = "PLAYERS_TURN"
    /\ lastOp = "surrender"
    /\ lastErr = "PlayFailure"
    /\ lastMsg = "surrender (not allowed after split)"
    /\ Len(players[Cursor[1]].hands) > 1
    /\ Len(HandAt(Cursor).hand) = 2

FirstTurnOps == {"double_down", "surrender"}

NotOnFirstTurn == {"double down (not on first turn)", "surrender (not on first turn)"}

\* C13: with more than two cards in the current hand, double_down and
\* surrender fail with PlayFailure, "not on first turn", and change nothing
\* of the round nor the deck; hit and stand are not refused afterwards.
C13_NotOnFirstTurn ==
    /\ [][(/\ lastOp' \in FirstTurnOps
           /\ state = "PLAYERS_TURN"
           /\ Len(HandAt(Cursor).hand) > 2) =>
              /\ lastErr' = "PlayFailure"
              /\ lastMsg' \in NotOnFirstTurn
              /\ RoundState' = RoundState
              /\ deck' = deck]_vars
    /\ [][(/\ lastMsg \in NotOnFirstTurn
           /\ lastOp' \in {"hit", "stand"}) =>
              lastErr' \notin {"InvalidActionError", "PlayFailure"}]_vars

\* double_down refused on a hand of three cards, still the current hand
C13_Witness ==
    /\ state = "PLAYERS_TURN"
    /\ lastOp = "double_down"
    /\ lastErr = "PlayFailure"
    /\ lastMsg = "double down (not on first turn)"
    /\ Len(HandAt(Cursor).hand) = 3
    /\ ~HandStand(HandAt(Cursor))

\* the current hand holds two cards of equal value
IsPair(h) == Len(h.hand) = 2 /\ CardValue(h.hand[1]) = CardValue(h.hand[2])

\* C14: in PLAYERS_TURN split succeeds exactly when the current hand holds
\* two cards of equal value; otherwise it fails with PlayFailure, draws no
\* card and changes no hand.
C14_SplitExactlyPairs ==
    [][lastOp' = "split" /\ state = "PLAYERS_TURN" =>
          IF IsPair(HandAt(Cursor))
          THEN lastErr' = "none"
          ELSE /\ lastErr' = "PlayFailure"
               /\ RoundState' = RoundState
               /\ deck' = deck]_vars

\* the total of the cards with every Ace counted as 1
HardTotal(cards) == SumValues(cards) - 10 * CountAces(cards)

\* the dealer's rule: draw below 17, and on a soft 17 when hit_soft_17 is set
DealerMustDraw(cards) ==
    \/ calculate_hand_total(cards) < 17
    \/ /\ calculate_hand_total(cards) = 17
       /\ calculate_hand_total(cards) # HardTotal(cards)
       /\ hit_soft_17

\* C15: at ROUND_OVER the dealer's total is at least 17; every card the
\* dealer drew beyond its two dealt cards it drew holding a hand that the
\* rule makes it draw on (below 17, or a soft 17 with hit_soft_17), and the
\* hand it ended on is none; before the dealer's turn it holds no third card.
C15_DealerRule ==
    /\ state \in {"DEALER_TURN", "ROUND_OVER"} =>
          \A k \in 2..(Len(dealer) - 1) : DealerMustDraw(SubSeq(dealer, 1, k))
    /\ state = "ROUND_OVER" =>
          /\ calculate_hand_total(dealer) >= 17
          /\ ~DealerMustDraw(dealer)
    /\ state \in {"INIT", "PLAYERS_TURN"} => Len(dealer) \in {0, 2}

\* the dealer drew on a soft 17, hit_soft_17 set, and the round is over
C15_Witness ==
    /\ state = "ROUND_OVER"
    /\ hit_soft_17
    /\ Len(dealer) > 2
    /\ calculate_hand_total(SubSeq(dealer, 1, 2)) = 17
    /\ HardTotal(SubSeq(dealer, 1, 2)) = 7

-----------------------------------------------------------------------------
(* Dealer.play_dealer of dealer.py, the dealer's play that takes the table *)
(* and reads the players' totals, applied to tables whose players have     *)
(* finished their hands                                                    *)

\* the while loop of Dealer.play_dealer with _play_hit: the dealer's hand
\* and the deck it leaves, or the error of drawing from an empty pile
RECURSIVE play_dealer(_, _, _)
play_dealer(cards, d, highest_total) ==
    IF calculate_hand_total(cards) < 17 /\ calculate_hand_total(cards) <= highest_total
    THEN IF DeckLen(d) = 0
         THEN [dealer |-> cards, deck |-> d, err |-> "IndexError"]
         ELSE play_dealer(Append(cards, draw_card(d).card), draw_card(d).deck,
                          highest_total)
    ELSE [dealer |-> cards, deck |-> d, err |-> "none"]

\* highest_total of Dealer.play_dealer: the highest total of the players
HighestTotal(ps) ==
    CHOOSE m \in {HandTotal(ps[p].hands[1]) : p \in 1..Len(ps)} :
        \A p \in 1..Len(ps) : HandTotal(ps[p].hands[1]) <= m

\* the hands the players have finished on
FinishedHands ==
    {<<"10", "2">>, <<"9", "6">>, <<"10", "7">>, <<"10", "K">>, <<"10", "6", "9">>}

\* the two cards dealt to the dealer
DealerDeals ==
    {<<"10", "5">>, <<"9", "3">>, <<"10", "6">>, <<"10", "7">>, <<"A", "6">>}

InitDealer ==
    /\ state = "DEALER_TURN"
    /\ \E n \in 1..MaxPlayers :
          \E hs \in [1..n -> FinishedHands] :
              /\ initial_players_data = [p \in 1..n |-> InitialBet(p)]
              /\ players = [p \in 1..n |->
                               [bet |-> InitialBet(p),
                                hands |-> <<stand_action(
                                    [NewHand(InitialBet(p)) EXCEPT !.hand = hs[p]])>>]]
    /\ dealer \in DealerDeals
    /\ \E order \in InitialDecks :
          deck = [cards |-> Reverse(order), drawn |-> <<>>, resets |-> 0]
    /\ current_player_idx = None
    /\ current_hand_idx = None
    /\ hit_soft_17 = FALSE
    /\ scored = 0
    /\ rounds = 0
    /\ lastOp = "none"
    /\ lastErr = "none"
    /\ lastMsg = ""
    /\ returned = NoCard

\* the call of play_dealer, once the players have finished
PlayDealer ==
    /\ lastOp = "none"
    /\ LET o == play_dealer(dealer, deck, HighestTotal(players))
       IN  /\ dealer' = o.dealer
           /\ deck' = o.deck
           /\ lastErr' = o.err
    /\ lastOp' = "play_dealer"
    /\ UNCHANGED <<state, players, current_player_idx, current_hand_idx,
                   initial_players_data, hit_soft_17, scored, rounds, lastMsg,
                   returned>>

NextDealer == PlayDealer

SpecDealer == InitDealer /\ [][NextDealer]_vars

\* the pile the dealer played from, its own draws put back
PileBeforeDealer ==
    [cards |-> deck.cards \o Reverse(SubSeq(deck.drawn,
                                            Len(deck.drawn) - (Len(dealer) - 3),
                                            Len(deck.drawn))),
     drawn |-> SubSeq(deck.drawn, 1, Len(deck.drawn) - (Len(dealer) - 2)),
     resets |-> deck.resets]

\* the totals the players could have held instead
OtherTotals == {calculate_hand_total(h) : h \in FinishedHands}

\* C16: the dealer's play does not depend on the players' totals: from the
\* same two cards and the same pile the dealer ends on the same hand
\* whatever the players hold, and it does not stop below 17 for being ahead
\* of every player.
C16_DealerIndependent ==
    lastOp = "play_dealer" =>
        /\ \A ht \in OtherTotals :
              play_dealer(SubSeq(dealer, 1, 2), PileBeforeDealer, ht).dealer = dealer
        /\ lastErr = "none" => calculate_hand_total(dealer) >= 17


\* C17: on a table of one player, a hit that busts the player's only hand
\* ends the round at once: the phase is ROUND_OVER, the hand is scored
\* PLAYER_BUST and the dealer still holds exactly its two dealt cards.
C17_BustEndsRoundUnplayed ==
    [][(/\ lastOp' = "hit"
        /\ state = "PLAYERS_TURN"
        /\ Len(players) = 1
        /\ Len(players[1].hands) = 1
        /\ ~HandBust(players[1].hands[1])
        /\ HandBust(players'[1].hands[1]))
       => /\ state' = "ROUND_OVER"
          /\ players'[1].hands[1].result = "PLAYER_BUST"
          /\ Len(dealer') = 2
          /\ dealer' = dealer]_vars


\* the dealer's two dealt cards total 21
DealerDealt21(d) == Len(d) >= 2 /\ DealerTotal(SubSeq(d, 1, 2)) = 21

\* every player holds one hand of its two dealt cards, scored, and the
\* dealer holds its two dealt cards
RoundOverOnDeal(ps, d) ==
    /\ Len(d) = 2
    /\ \A p \in 1..Len(ps) :
          /\ Len(ps[p].hands) = 1
          /\ Len(ps[p].hands[1].hand) = 2
          /\ ps[p].hands[1].result # NoResult

\* C18: when the dealer's two dealt cards total 21, start_game ends in
\* ROUND_OVER with no players' turn: the phase is never PLAYERS_TURN with
\* such a dealer, every player hand holds its two dealt cards and has a
\* result, and the dealer holds its two cards and draws no more.
C18_DealerNaturalEndsRound ==
    /\ [][(lastOp' = "start_game" /\ lastErr' = "none" /\ DealerDealt21(dealer'))
          => (state' = "ROUND_OVER" /\ RoundOverOnDeal(players', dealer'))]_vars
    /\ [](DealerDealt21(dealer) =>
             /\ state # "PLAYERS_TURN"
             /\ state = "ROUND_OVER" => RoundOverOnDeal(players, dealer))

C18_Witness ==
    /\ lastOp = "start_game"
    /\ lastErr = "none"
    /\ state = "ROUND_OVER"
    /\ DealerDealt21(dealer)
    /\ Len(players) = 2


\* C19: the dealer's visible hand is the single up-card, the dealer's first
\* dealt card, in every state of the players' turn, and the dealer's whole
\* hand in DEALER_TURN and ROUND_OVER; a player action that leaves the phase
\* at PLAYERS_TURN leaves the visible hand at that one card.
C19_VisibleHand ==
    /\ [](/\ state = "PLAYERS_TURN" =>
                /\ Len(dealer) = 2
                /\ dealer_visible_hand(Tbl) = <<dealer[1]>>
          /\ state \in {"DEALER_TURN", "ROUND_OVER"} =>
                dealer_visible_hand(Tbl) = dealer)
    /\ [][(state = "PLAYERS_TURN" /\ state' = "PLAYERS_TURN" /\ lastOp' \in PlayerOps)
          => (/\ dealer' = dealer
              /\ dealer_visible_hand([Tbl EXCEPT !.state = state', !.dealer = dealer'])
                     = dealer_visible_hand(Tbl))]_vars

C19_Witness ==
    /\ state = "PLAYERS_TURN"
    /\ lastOp = "split"
    /\ lastErr = "none"
    /\ dealer_visible_hand(Tbl) = <<dealer[1]>>
    /\ dealer_visible_hand(Tbl) # dealer


\* the last n cards drawn from the deck, in the order drawn
LastDrawn(d, n) == SubSeq(d.drawn, Len(d.drawn) - n + 1, Len(d.drawn))

\* the dealer's hand d is made of the cards of a deal to n players that
\* fell to the dealer, followed by the cards drawn after that deal
DealtInNewRound(d, dk, n) ==
    /\ Len(d) >= 2
    /\ Len(dk.drawn) >= 2 * n + Len(d)
    /\ LET new == LastDrawn(dk, 2 * n + Len(d))
       IN  /\ d[1] = new[n + 1]
           /\ d[2] = new[2 * n + 2]
           /\ \A i \in 3..Len(d) : d[i] = new[2 * n + i]

\* C20: after a start_game that succeeds from ROUND_OVER, whatever the round
\* before held, every player has again one hand of two cards at the
\* player's original bet, not surrendered, not stood by the player, and
\* without a result unless the new round ended inside start_game; the
\* dealer's hand is made only of cards dealt in the new round.
C20_FreshRound ==
    [][(state = "ROUND_OVER" /\ lastOp' = "start_game" /\ lastErr' = "none")
       => /\ Len(players') = Len(initial_players_data)
          /\ \A p \in 1..Len(players') :
                /\ Len(players'[p].hands) = 1
                /\ players'[p].bet = OriginalBet(p)
                /\ Len(players'[p].hands[1].hand) = 2
                /\ players'[p].hands[1].bet = OriginalBet(p)
                /\ ~players'[p].hands[1].surrendered
                /\ ~players'[p].hands[1].stood
                /\ state' # "ROUND_OVER" => players'[p].hands[1].result = NoResult
          /\ DealtInNewRound(dealer', deck', Len(players'))]_vars

C20_Witness ==
    /\ rounds = 2
    /\ lastOp = "start_game"
    /\ lastErr = "none"
    /\ state = "PLAYERS_TURN"
    /\ deck.resets = 0
    /\ Len(deck.drawn) > 2 * (2 * Len(players) + 2)
    /\ DealtInNewRound(dealer, deck, Len(players))


\* one card c was drawn from the deck d and d2 is the deck it left, the
\* deck reset first when it was empty; more may have been drawn after it
DrewFirst(d, d2, c) ==
    IF DeckLen(d) > 0
    THEN /\ c = d.cards[Len(d.cards)]
         /\ Len(d2.drawn) > Len(d.drawn)
         /\ SubSeq(d2.drawn, 1, Len(d.drawn) + 1) = Append(d.drawn, c)
         /\ d2.resets = d.resets
    ELSE /\ Len(d2.drawn) >= 1
         /\ d2.drawn[1] = c
         /\ d2.resets = d.resets + 1

\* C21: a hit that succeeds draws exactly one card, appends it to the
\* current hand and returns it; the cursor moves if and only if the hand
\* stands afterwards; every other hand's cards, every bet, every player's
\* number of hands and, unless the round ends, the dealer's hand are as
\* before.
C21_HitEffect ==
    [][(lastOp' = "hit" /\ lastErr' = "none")
       => /\ state = "PLAYERS_TURN"
          /\ HasCurrentHand(Tbl)
          /\ returned' # NoCard
          /\ players'[Cursor[1]].hands[Cursor[2]].hand
                = Append(HandAt(Cursor).hand, returned')
          /\ DrewFirst(deck, deck', returned')
          /\ state' = "PLAYERS_TURN" =>
                /\ Len(deck'.cards) + Len(deck'.drawn) = Len(deck.cards) + Len(deck.drawn)
                /\ Len(deck'.drawn) = (IF DeckLen(deck) > 0 THEN Len(deck.drawn) ELSE 0) + 1
                /\ dealer' = dealer
          /\ (<<current_player_idx', current_hand_idx'>>
                  # <<current_player_idx, current_hand_idx>>)
                <=> HandStand(players'[Cursor[1]].hands[Cursor[2]])
          /\ Len(players') = Len(players)
          /\ \A p \in 1..Len(players) :
                /\ Len(players'[p].hands) = Len(players[p].hands)
                /\ players'[p].bet = players[p].bet
                /\ \A h \in 1..Len(players[p].hands) :
                      /\ players'[p].hands[h].bet = players[p].hands[h].bet
                      /\ <<p, h>> # Cursor =>
                            players'[p].hands[h].hand = players[p].hands[h].hand]_vars

C21_Witness ==
    /\ lastOp = "hit"
    /\ lastErr = "none"
    /\ state = "PLAYERS_TURN"
    /\ returned # NoCard
    /\ Len(players) = 2
    /\ current_player_idx = 1
    /\ HandBust(players[1].hands[1])
    /\ returned = players[1].hands[1].hand[Len(players[1].hands[1].hand)]


-----------------------------------------------------------------------------
(* calculate_hand_total of utils.py applied to every short list of cards *)

MaxCards == 4

\* one rank for every card value, and a face card
Ranks == {"A", "2", "3", "4", "5", "6", "7", "8", "9", "10", "K"}

\* the lists of at most n cards
CardLists(n) == UNION {[1..k -> Ranks] : k \in 0..n}

\* a table on which nothing has been called
NoCallYet ==
    /\ scored = 0
    /\ rounds = 0
    /\ lastOp = "none"
    /\ lastErr = "none"
    /\ lastMsg = ""
    /\ returned = NoCard

\* a table without players, the cards to total in the dealer's hand
InitTotal ==
    /\ state = "INIT"
    /\ players = <<>>
    /\ initial_players_data = <<>>
    /\ dealer \in CardLists(MaxCards)
    /\ deck = [cards |-> <<>>, drawn |-> <<>>, resets |-> 0]
    /\ current_player_idx = None
    /\ current_hand_idx = None
    /\ hit_soft_17 = FALSE
    /\ NoCallYet

\* calculate_hand_total(cards), the cards those of the dealer's hand
CalculateHandTotal ==
    /\ lastOp = "none"
    /\ lastOp' = "calculate_hand_total"
    /\ returned' = calculate_hand_total(dealer)
    /\ UNCHANGED <<state, players, dealer, deck, current_player_idx,
                   current_hand_idx, initial_players_data, hit_soft_17, scored,
                   rounds, lastErr, lastMsg>>

NextTotal == CalculateHandTotal

SpecTotal == InitTotal /\ [][NextTotal]_vars

\* the sum of the cards with every Ace counted as 1
RECURSIVE SumAcesLow(_)
SumAcesLow(cards) ==
    IF cards = <<>> THEN 0
    ELSE (IF Head(cards) = "A" THEN 1 ELSE CardValue(Head(cards)))
         + SumAcesLow(Tail(cards))

\* the totals obtainable by counting each Ace as 1 or 11
Obtainable(cards) ==
    {SumAcesLow(cards) + 10 * k :
        k \in 0..Cardinality({i \in 1..Len(cards) : cards[i] = "A"})}

\* C22: calculate_hand_total returns the largest total not above 21 that
\* counting each Ace as 1 or 11 can give, and when there is none the sum
\* with every Ace counted as 1; A, A, 9 gives 21.
C22_BestTotal ==
    lastOp = "calculate_hand_total" =>
        /\ returned \in Obtainable(dealer)
        /\ IF \E x \in Obtainable(dealer) : x <= 21
           THEN /\ returned <= 21
                /\ \A x \in Obtainable(dealer) : x <= 21 => x <= returned
           ELSE returned = SumAcesLow(dealer)
        /\ dealer = <<"A", "A", "9">> => returned = 21

C22_Witness ==
    /\ lastOp = "calculate_hand_total"
    /\ dealer = <<"A", "A", "9">>
    /\ returned = 21


\* both indices of the cursor are None
CursorCleared == current_player_idx = None /\ current_hand_idx = None

\* C23: in every state in which cards have been dealt, PLAYERS_TURN or
\* ROUND_OVER, the round ended by the dealer's 21 in start_game included,
\* the cursor is on the first hand in turn order that is not standing or
\* is cleared, and it is cleared whenever no hand is left that is not
\* standing.
C23_CursorFirstOrCleared ==
    state \in {"PLAYERS_TURN", "ROUND_OVER"} =>
        /\ \/ CursorCleared
           \/ /\ Cursor \in NonStandingHands
              /\ \A ph \in NonStandingHands : LexLeq(Cursor, ph)
        /\ NonStandingHands = {} => CursorCleared


\* the cards drawn during the call that ends, in the order drawn: those put
\* on the drawn pile since the call began, or since the deck was reset in it
DrawnInCall ==
    IF deck'.resets = deck.resets
    THEN SubSeq(deck'.drawn, Len(deck.drawn) + 1, Len(deck'.drawn))
    ELSE deck'.drawn

\* the first 2 * (n + 1) cards drawn in the call went, in this order, one to
\* each player, one to the dealer, a second to each player, a second to the
\* dealer
DealtRoundRobin ==
    LET n == Len(players')
        new == DrawnInCall
    IN  /\ Len(new) >= 2 * (n + 1)
        /\ deck'.resets = deck.resets =>
              \A k \in 1..(2 * (n + 1)) : new[k] = deck.cards[Len(deck.cards) - k + 1]
        /\ \A i \in 1..n :
              /\ Len(players'[i].hands) = 1
              /\ players'[i].hands[1].hand = <<new[i], new[n + 1 + i]>>
        /\ Len(dealer') >= 2
        /\ dealer'[1] = new[n + 1]
        /\ dealer'[2] = new[2 * n + 2]

\* C24 as stated: a start_game that succeeds with n players consumes exactly
\* 2 * (n + 1) cards, in the order one to each player, one to the dealer, a
\* second to each player, a second to the dealer.
C24_DealExactly ==
    [][(lastOp' = "start_game" /\ lastErr' = "none")
       => /\ DealtRoundRobin
          /\ Len(DrawnInCall) = 2 * (Len(players') + 1)]_vars

\* C24: a start_game that succeeds with n >= 1 players deals the first
\* 2 * (n + 1) cards it draws in the order one to each player, one to the
\* dealer, a second to each player, a second to the dealer; it draws more
\* only when every player stands on the deal and the dealer, not at 21,
\* plays inside the call, and every further card goes to the dealer.  With
\* no player start_game draws nothing.
C24_DealOrder ==
    [][(lastOp' = "start_game" /\ lastErr' = "none")
       => IF Len(players) = 0
          THEN deck' = deck /\ dealer' = dealer /\ state' = state
          ELSE /\ DealtRoundRobin
               /\ Len(DrawnInCall) = 2 * Len(players') + Len(dealer')
               /\ \A k \in 3..Len(dealer') :
                     dealer'[k] = DrawnInCall[2 * Len(players') + k]
               /\ Len(dealer') > 2 =>
                     /\ state' = "ROUND_OVER"
                     /\ ~DealerDealt21(dealer')
                     /\ \A i \in 1..Len(players') :
                           HandTotal(players'[i].hands[1]) = 21]_vars

C24_Witness ==
    /\ lastOp = "start_game"
    /\ lastErr = "none"
    /\ state = "PLAYERS_TURN"
    /\ Len(players) = 2
    /\ deck.resets = 0
    /\ deck.drawn = <<players[1].hands[1].hand[1], players[2].hands[1].hand[1],
                      dealer[1],
                      players[1].hands[1].hand[2], players[2].hands[1].hand[2],
                      dealer[2]>>
    /\ dealer[1] # players[1].hands[1].hand[2]


\* the cards start_game needs for the deal
CardsNeeded == 2 * (Len(players) + 1)

\* C25: start_game deals only when the deck holds at least
\* 2 * (players + 1) cards, resetting the deck at most once to get there;
\* when the deck holds fewer even after the reset, start_game fails with
\* InvalidActionError, deals no card to any hand and leaves the phase as it
\* was.
C25_EnoughCardsToDeal ==
    [][(lastOp' = "start_game" /\ Len(players) > 0 /\ state \in {"INIT", "ROUND_OVER"})
       => /\ deck'.resets <= deck.resets + 1
          /\ lastErr' \in {"none", "InvalidActionError", "EmptyDeckError"}
          /\ lastErr' # "InvalidActionError" =>
                /\ Len(deck.cards) + Len(deck.drawn) >= CardsNeeded
                /\ Len(DrawnInCall) >= CardsNeeded
                /\ deck'.resets = deck.resets => DeckLen(deck) >= CardsNeeded
                /\ (state = "INIT" /\ deck'.resets # deck.resets) =>
                      DeckLen(deck) < CardsNeeded
                /\ \A p \in 1..Len(players') : Len(players'[p].hands[1].hand) = 2
          /\ lastErr' = "InvalidActionError" =>
                /\ DeckLen(deck) < CardsNeeded
                /\ DeckLen(deck') < CardsNeeded
                /\ deck'.resets = deck.resets + 1
                /\ state' = state
                /\ dealer' = <<>>
                /\ \A p \in 1..Len(players') :
                      \A h \in 1..Len(players'[p].hands) :
                          players'[p].hands[h].hand = <<>>]_vars

C25_Witness ==
    /\ lastOp = "start_game"
    /\ lastErr = "InvalidActionError"
    /\ lastMsg = "not enough cards"
    /\ state = "INIT"
    /\ deck.resets = 1
    /\ DeckLen(deck) = CardsNeeded - 2


\* the operations that draw for a player's hand
DrawingOps == {"hit", "double_down", "split"}

\* the ways the call of op can end on the table t
Outcomes(op, t) ==
    CASE op = "hit" -> hit(t)
      [] op = "double_down" -> double_down(t)
      [] op = "split" -> split(t)

\* a deck that holds no card and gets none back from a reset
NoCards == [cards |-> <<>>, drawn |-> <<>>, resets |-> deck.resets]

\* C26: when hit, double_down or split needs a card and the deck is empty,
\* the table resets the deck and draws again, once, and the call ends as it
\* would on the reset deck; when the deck is still empty after the reset
\* the error reaches the caller and no hand, bet or cursor is changed.
C26_ResetAndRetryOnce ==
    /\ [][(/\ lastOp' \in DrawingOps
           /\ HasCurrentHand(Tbl)
           /\ lastErr' \notin {"PlayFailure", "InvalidActionError"}
           /\ DeckLen(deck) = 0)
          => /\ lastErr' # "RuntimeError"
             /\ deck'.resets = deck.resets + 1
             /\ \E d \in reset(deck) :
                   /\ DeckLen(d) > 0
                   /\ \E o \in Outcomes(lastOp', [Tbl EXCEPT !.deck = d]) :
                         /\ o.t = Tbl'
                         /\ o.err = lastErr'
                         /\ o.ret = returned']_vars
    /\ [][(/\ lastOp' = "split"
           /\ HasCurrentHand(Tbl)
           /\ lastErr' \notin {"PlayFailure", "InvalidActionError"}
           /\ DeckLen(deck) = 1)
          => /\ lastErr' # "RuntimeError"
             /\ deck'.resets = deck.resets + 1
             /\ players'[Cursor[1]].hands[Cursor[2]].hand[2]
                   = deck.cards[1]]_vars
    /\ [](HasCurrentHand(Tbl) =>
             \A op \in DrawingOps :
                 \A o \in Outcomes(op, [Tbl EXCEPT !.deck = NoCards]) :
                     /\ o.err \in {"RuntimeError", "PlayFailure"}
                     /\ o.t.players = players
                     /\ o.t.cp = current_player_idx
                     /\ o.t.ch = current_hand_idx
                     /\ o.t.state = state
                     /\ o.t.dealer = dealer)

C26_Witness ==
    /\ lastOp = "double_down"
    /\ lastErr = "none"
    /\ deck.resets = 1
    /\ Len(deck.drawn) = 1
    /\ returned = deck.drawn[1]
    /\ state = "PLAYERS_TURN"


\* the deck d2 is the deck d reset: every card back in the pile, none drawn
IsReset(d, d2) ==
    /\ d2.resets = d.resets + 1
    /\ d2.drawn = <<>>
    /\ Len(d2.cards) = Len(d.cards) + Len(d.drawn)

\* C27: in the round reset that start_game performs from ROUND_OVER the
\* deck is reset, every drawn card returned, if and only if drawn cards
\* over all cards is strictly more than 0.75; at 0.75 or less the deck is
\* left as it is.
C27_ResetOverThreshold ==
    /\ [](state = "ROUND_OVER" =>
             \A t1 \in _reset_round(Tbl) :
                 IF 4 * Len(deck.drawn) > 3 * (Len(deck.cards) + Len(deck.drawn))
                 THEN IsReset(deck, t1.deck)
                 ELSE t1.deck = deck)
    /\ [][(state = "ROUND_OVER" /\ lastOp' = "start_game" /\ lastErr' = "none")
          => IF 4 * Len(deck.drawn) > 3 * (Len(deck.cards) + Len(deck.drawn))
             THEN deck'.resets = deck.resets + 1
             ELSE (deck'.resets = deck.resets
                   \/ (DeckLen(deck) < CardsNeeded /\ deck'.resets = deck.resets + 1))]_vars

C27_Witness ==
    /\ lastOp = "start_game"
    /\ lastErr = "none"
    /\ rounds = 2
    /\ state = "PLAYERS_TURN"
    /\ deck.resets = 0
    /\ 4 * (Len(deck.drawn) - CardsNeeded) <= 3 * (Len(deck.cards) + Len(deck.drawn))
    /\ 4 * (Len(deck.drawn) - CardsNeeded) > 2 * (Len(deck.cards) + Len(deck.drawn))


-----------------------------------------------------------------------------
(* Hand.stand_action, and PlayerBase.play_stand of players.py, applied to *)
(* one hand over and over                                                  *)

\* PlayerBase.play_stand that flips the stand flag
play_stand_Flip(h) ==
    IF ~HandBust(h) THEN [h EXCEPT !.stood = ~h.stood] ELSE h

\* PlayerBase.play_stand: the stand flag set unless the hand is bust
play_stand(h) ==
    IF ~HandBust(h) THEN [h EXCEPT !.stood = TRUE] ELSE h

\* what play_stand returns
play_stand_returns(h) == IF ~HandBust(h) THEN "True" ELSE "False"

\* the hands to stand on: up to MaxCards - 1 cards, any flags
HandsToStand ==
    {[NewHand(InitialBet(1)) EXCEPT !.hand = c, !.stood = st, !.surrendered = su] :
        c \in CardLists(MaxCards - 1) \ {<<>>}, st \in BOOLEAN, su \in BOOLEAN}

\* a table of one player in its turn, the hand to stand on under the cursor
InitStand ==
    /\ state = "PLAYERS_TURN"
    /\ initial_players_data = <<InitialBet(1)>>
    /\ \E h \in HandsToStand :
          players = <<[bet |-> InitialBet(1), hands |-> <<h>>]>>
    /\ dealer = <<>>
    /\ deck = [cards |-> <<>>, drawn |-> <<>>, resets |-> 0]
    /\ current_player_idx = 0
    /\ current_hand_idx = 0
    /\ hit_soft_17 = FALSE
    /\ NoCallYet

\* hand.stand_action() on the hand under the cursor
StandAction ==
    /\ players' = [players EXCEPT ![1].hands[1] = stand_action(players[1].hands[1])]
    /\ lastOp' = "stand_action"
    /\ returned' = NoCard
    /\ UNCHANGED <<state, dealer, deck, current_player_idx, current_hand_idx,
                   initial_players_data, hit_soft_17, scored, rounds, lastErr,
                   lastMsg>>

\* play_stand() on the hand under the cursor
PlayStand ==
    /\ players' = [players EXCEPT ![1].hands[1] = play_stand(players[1].hands[1])]
    /\ lastOp' = "play_stand"
    /\ returned' = play_stand_returns(players[1].hands[1])
    /\ UNCHANGED <<state, dealer, deck, current_player_idx, current_hand_idx,
                   initial_players_data, hit_soft_17, scored, rounds, lastErr,
                   lastMsg>>

NextStand == StandAction \/ PlayStand

SpecStand == InitStand /\ [][NextStand]_vars

\* C28: stand_action is idempotent, a second application leaves the hand as
\* the first left it, and so is play_stand; applied to a hand that already
\* stands, by its flag, by a total of 21 or more or by surrender, neither
\* changes the hand's cards, total or bust status.
C28_StandIdempotent ==
    [][LET h == players[1].hands[1]
           h2 == players'[1].hands[1]
       IN  /\ lastOp' = lastOp => h2 = h
           /\ lastOp' = "stand_action" => HandStand(h2)
           /\ h2.hand = h.hand
           /\ HandTotal(h2) = HandTotal(h)
           /\ HandBust(h2) = HandBust(h)
           /\ h2.bet = h.bet
           /\ h2.surrendered = h.surrendered]_vars

C28_Witness ==
    /\ lastOp = "stand_action"
    /\ players[1].hands[1].stood
    /\ players[1].hands[1].surrendered
    /\ HandTotal(players[1].hands[1]) = 21
    /\ Len(players[1].hands[1].hand) = 3


\* the cards of a are the first cards of b, in the same order
IsPrefix(a, b) == Len(a) <= Len(b) /\ SubSeq(b, 1, Len(a)) = a

\* every hand keeps the cards it holds, in their order and at the front
HandsKeepCards ==
    /\ Len(players') = Len(players)
    /\ \A p \in 1..Len(players) :
          /\ Len(players'[p].hands) = Len(players[p].hands)
          /\ \A h \in 1..Len(players[p].hands) :
                IsPrefix(players[p].hands[h].hand, players'[p].hands[h].hand)

\* the hand under the cursor gives its second card to a new hand placed
\* after it, where it is the first card; every other hand keeps its cards
SplitMovesSecondCard ==
    LET p == Cursor[1]
        h == Cursor[2]
    IN  /\ Len(players') = Len(players)
        /\ Len(players'[p].hands) = Len(players[p].hands) + 1
        /\ Len(players[p].hands[h].hand) = 2
        /\ players'[p].hands[h].hand[1] = players[p].hands[h].hand[1]
        /\ players'[p].hands[h + 1].hand[1] = players[p].hands[h].hand[2]
        /\ Len(players'[p].hands[h].hand) = 2
        /\ Len(players'[p].hands[h + 1].hand) = 2
        /\ \A q \in 1..Len(players) :
              \A g \in 1..Len(players[q].hands) :
                  <<q, g>> # <<p, h>> =>
                      IsPrefix(players[q].hands[g].hand,
                               players'[q].hands[HandAfter(q, g)].hand)

\* C29: within a round no operation takes a card from a hand or reorders
\* the cards a hand holds, except a split that succeeds, which takes
\* exactly the second card from the split hand and makes it the first card
\* of the new hand beside it.
C29_CardsOnlyAppended ==
    [][lastOp' # "start_game"
       => IF lastOp' = "split" /\ lastErr' = "none"
          THEN SplitMovesSecondCard
          ELSE HandsKeepCards]_vars


-----------------------------------------------------------------------------
(* The dealer's play of _play_dealer_and_end_game, one draw at a time, the *)
(* deck supplying any card next or none                                     *)

\* the players have finished, the dealer holds its two cards and plays
InitPlay ==
    /\ state = "DEALER_TURN"
    /\ initial_players_data = <<InitialBet(1)>>
    /\ players = <<[bet |-> InitialBet(1),
                    hands |-> <<stand_action([NewHand(InitialBet(1))
                                    EXCEPT !.hand = <<"10", "7">>])>>]>>
    /\ dealer \in [1..2 -> Ranks]
    /\ deck = [cards |-> <<>>, drawn |-> <<>>, resets |-> 0]
    /\ current_player_idx = None
    /\ current_hand_idx = None
    /\ hit_soft_17 \in BOOLEAN
    /\ NoCallYet

\* the cards the deck supplies: the Ace, the lowest card and a ten
Supplied == {"A", "2", "K"}

\* Dealer.play, one turn of its loop: the dealer does not stand and the
\* deck supplies the card c
DealerDraws ==
    /\ lastOp = "none"
    /\ ~DealerStand(dealer, hit_soft_17)
    /\ \E c \in Supplied :
          LET d == draw_card([deck EXCEPT !.cards = <<c>>])
          IN  /\ dealer' = Append(dealer, d.card)
              /\ deck' = d.deck
    /\ UNCHANGED <<state, players, current_player_idx, current_hand_idx,
                   initial_players_data, hit_soft_17, scored, rounds, lastOp,
                   lastErr, lastMsg, returned>>

\* Dealer.play, one turn of its loop: the dealer does not stand and the
\* deck is empty
DeckRunsOut ==
    /\ lastOp = "none"
    /\ ~DealerStand(dealer, hit_soft_17)
    /\ lastOp' = "play"
    /\ lastErr' = "EmptyDeckError"
    /\ UNCHANGED <<state, players, dealer, deck, current_player_idx,
                   current_hand_idx, initial_players_data, hit_soft_17, scored,
                   rounds, lastMsg, returned>>

\* Dealer.play returns, the dealer standing: the hands are scored and the
\* round is over
DealerDone ==
    /\ lastOp = "none"
    /\ DealerStand(dealer, hit_soft_17)
    /\ lastOp' = "play"
    /\ LET t == EndRound(_calculate_results(Tbl))
       IN  /\ state' = t.state
           /\ players' = t.players
           /\ scored' = t.scored
    /\ UNCHANGED <<dealer, deck, current_player_idx, current_hand_idx,
                   initial_players_data, hit_soft_17, rounds, lastErr, lastMsg,
                   returned>>

NextPlay == DealerDraws \/ DeckRunsOut \/ DealerDone

\* the call runs on until it returns or raises
SpecPlay == InitPlay /\ [][NextPlay]_vars /\ WF_vars(NextPlay)

\* the most cards a dealer dealt the cards d can draw
MostDraws(d) ==
    IF HardTotal(SubSeq(d, 1, 2)) > 17 THEN 0 ELSE 18 - HardTotal(SubSeq(d, 1, 2))

C31_RoundOverAllStand ==
    state = "ROUND_OVER" => \A ph \in HandIdx : HandStand(HandAt(ph))

\* C31: whenever the phase is ROUND_OVER every hand of every player is
\* standing, unless the round ended inside start_game on the dealer's two
\* cards totalling 21; the hands of such a round are as they were dealt.
C31_RoundOverAllStandButShortcut ==
    state = "ROUND_OVER" =>
        IF Len(dealer) = 2 /\ DealerTotal(dealer) = 21
        THEN \A ph \in HandIdx :
                 /\ Len(HandAt(ph).hand) = 2
                 /\ ~HandAt(ph).stood
                 /\ ~HandAt(ph).surrendered
        ELSE \A ph \in HandIdx : HandStand(HandAt(ph))

C31_Witness ==
    /\ state = "ROUND_OVER"
    /\ lastOp = "stand"
    /\ lastErr = "none"
    /\ Len(players) = 2
    /\ Len(dealer) > 2
    /\ \A ph \in HandIdx : HandStand(HandAt(ph))
    /\ \E ph \in HandIdx : HandTotal(HandAt(ph)) < 21 /\ HandAt(ph).stood

-----------------------------------------------------------------------------
(* C32: card conservation *)

\* how many cards of a rank a list of cards holds
CountOf(r, cards) == Cardinality({i \in 1..Len(cards) : cards[i] = r})

RECURSIVE CardsOfHands(_)
\* the cards of a list of hands, one hand after the other
CardsOfHands(hs) ==
    IF Len(hs) = 0 THEN <<>> ELSE hs[1].hand \o CardsOfHands(Tail(hs))

RECURSIVE CardsOfPlayers(_)
\* the cards held by a list of players
CardsOfPlayers(ps) ==
    IF Len(ps) = 0 THEN <<>>
    ELSE CardsOfHands(ps[1].hands) \o CardsOfPlayers(Tail(ps))

\* the cards on the table: the players' hands and the dealer's hand
CardsHeld == CardsOfPlayers(players) \o dealer

\* the ranks of the deck in use
RanksInUse == {deck.cards[i] : i \in 1..Len(deck.cards)}
                \cup {deck.drawn[i] : i \in 1..Len(deck.drawn)}
                \cup {CardsHeld[i] : i \in 1..Len(CardsHeld)}

\* C32: no card is at once in a hand and in the pile of undrawn cards.  The
\* deck is its pile and its drawn cards, so every card held in a hand has to
\* be one of the drawn cards: of each rank, the hands hold no more cards than
\* have been drawn since the last reset.
C32_CardConservation ==
    \A r \in RanksInUse : CountOf(r, CardsHeld) <= CountOf(r, deck.drawn)

-----------------------------------------------------------------------------
(* C33: the dealer's two-card 21 and the shortcut of start_game *)

\* the dealer holds a two-card 21
DealerNatural(d) == Len(d) = 2 /\ DealerTotal(d) = 21

\* the rule "dealer natural beats the hand" is the one that scores the hand
DealerNaturalBeats(h, hand_count, d) ==
    /\ DealerNatural(d)
    /\ ~h.surrendered
    /\ HandTotal(h) <= 21
    /\ ~(Len(h.hand) = 2 /\ HandTotal(h) = 21 /\ hand_count = 1)

\* a call that ends a round without an error: start_game on a table with
\* players, or a call made in the players' turn
RoundEnds ==
    /\ state' = "ROUND_OVER"
    /\ lastErr' = "none"
    /\ \/ lastOp' = "start_game" /\ Len(players) > 0
       \/ state = "PLAYERS_TURN"

\* the round ended in the dealer-21 branch of start_game, the one way to
\* ROUND_OVER that does not run _next_hand and so leaves the cursor set
EndedByShortcut ==
    /\ lastOp' = "start_game"
    /\ current_player_idx' = 0
    /\ current_hand_idx' = 0

\* C33: when a round ends, the dealer holds a two-card 21 if and only if the
\* round ended in the dealer-21 shortcut of start_game; after the shortcut
\* every hand is scored PUSH when it is a two-card 21 and DEALER_WIN
\* otherwise; in a round that went through the players' turn the rule
\* "dealer natural beats the hand" scores no hand.
C33_DealerNaturalIffShortcut ==
    [][RoundEnds =>
        /\ DealerNatural(dealer') <=> EndedByShortcut
        /\ EndedByShortcut =>
              \A p \in 1..Len(players') : \A h \in 1..Len(players'[p].hands) :
                  LET hd == players'[p].hands[h]
                  IN  IF Len(hd.hand) = 2 /\ HandTotal(hd) = 21
                      THEN hd.result = "PUSH"
                      ELSE hd.result = "DEALER_WIN"
        /\ ~EndedByShortcut =>
              \A p \in 1..Len(players') : \A h \in 1..Len(players'[p].hands) :
                  ~DealerNaturalBeats(players'[p].hands[h],
                                      Len(players'[p].hands), dealer')]_vars

\* a round ended by the shortcut, the hand below 21 lost to the dealer
C33_Witness ==
    /\ state = "ROUND_OVER"
    /\ lastOp = "start_game"
    /\ lastErr = "none"
    /\ DealerNatural(dealer)
    /\ current_player_idx = 0
    /\ \E ph \in HandIdx : /\ HandTotal(HandAt(ph)) < 21
                           /\ HandAt(ph).result = "DEALER_WIN"

-----------------------------------------------------------------------------
(* C34: in the players' turn there is a current hand to play *)

\* the messages of a call refused for want of an active hand
NoActiveHandMsgs ==
    {what \o ": no active hand" :
        what \in {"hit", "stand", "double down", "split", "surrender"}}

\* the cursor of the table is on a hand that is not standing
OnHandToPlay(t) == HasCurrentHand(t) /\ ~HandStand(current_hand(t))

\* C34: in the players' turn the current hand exists and is not standing; no
\* call of hit, stand, double_down, split or surrender is refused for want
\* of an active hand, no hit fails with PlayFailure, and no stand is applied
\* to a hand that is standing already.
C34_CurrentHandToPlay ==
    [][/\ state = "PLAYERS_TURN" => OnHandToPlay(Tbl)
       /\ state' = "PLAYERS_TURN" => OnHandToPlay(Tbl)'
       /\ lastOp' \in PlayerOps =>
             /\ lastMsg' \notin NoActiveHandMsgs
             /\ lastOp' = "hit" => lastErr' # "PlayFailure"
             /\ (lastOp' = "stand" /\ lastErr' # "InvalidActionError")
                    => OnHandToPlay(Tbl)]_vars

\* a stand on the first player's hand that left the cursor on a hand of the
\* second player, the players' turn going on
C34_Witness ==
    /\ state = "PLAYERS_TURN"
    /\ lastOp = "stand"
    /\ lastErr = "none"
    /\ current_player_idx = 1
    /\ HandAt(<<1, 1>>).stood
    /\ ~HandStand(HandAt(Cursor))

-----------------------------------------------------------------------------
(* C35: a doubled hand is closed *)

\* the hand at ph carries twice the original bet of its player
Doubled(ph) == HandAt(ph).bet = 2 * OriginalBet(ph[1])

\* every doubled hand holds three cards, stands and has not surrendered
DoubledHandsClosed ==
    \A ph \in HandIdx :
        Doubled(ph) => /\ Len(HandAt(ph).hand) = 3
                       /\ HandStand(HandAt(ph))
                       /\ HandAt(ph).stood
                       /\ ~HandAt(ph).surrendered

\* C35: a hand whose bet is twice its player's original bet holds exactly
\* three cards and is standing; no later call of the round adds a card to
\* it, splits it or surrenders it.
C35_DoubledHandClosed ==
    [][/\ DoubledHandsClosed
       /\ DoubledHandsClosed'
       /\ lastOp' \in PlayerOps =>
             \A ph \in HandIdx :
                 Doubled(ph) =>
                     /\ ph[2] <= Len(players'[ph[1]].hands)
                     /\ players'[ph[1]].hands[ph[2]].hand = HandAt(ph).hand
                     /\ players'[ph[1]].hands[ph[2]].bet = HandAt(ph).bet
                     /\ ~players'[ph[1]].hands[ph[2]].surrendered]_vars

\* a hit or a split made after a double_down, the doubled hand of three
\* cards under 21 still on the table
C35_Witness ==
    /\ lastOp \in {"hit", "split"}
    /\ lastErr = "none"
    /\ \E ph \in HandIdx : /\ Doubled(ph)
                           /\ Len(HandAt(ph).hand) = 3
                           /\ HandTotal(HandAt(ph)) < 21

-----------------------------------------------------------------------------
(* C36: the hands of a round in play or over *)

\* C36: in PLAYERS_TURN and in ROUND_OVER every player owns at least one
\* hand, every hand holds at least two cards, and every hand that is not
\* standing totals at most 20 and has not surrendered.
C36_HandsOfARound ==
    state \in {"PLAYERS_TURN", "ROUND_OVER"} =>
        /\ \A p \in 1..Len(players) : Len(players[p].hands) >= 1
        /\ \A ph \in HandIdx :
              /\ Len(HandAt(ph).hand) >= 2
              /\ ~HandStand(HandAt(ph)) =>
                    /\ HandTotal(HandAt(ph)) <= 20
                    /\ ~HandAt(ph).surrendered

\* the players' turn after a split, a hand of two cards still to play beside
\* a hand of more than two
C36_Witness ==
    /\ state = "PLAYERS_TURN"
    /\ \E p \in 1..Len(players) : Len(players[p].hands) >= 2
    /\ \E ph \in HandIdx : Len(HandAt(ph).hand) > 2
    /\ \E ph \in HandIdx : /\ ~HandStand(HandAt(ph))
                           /\ Len(HandAt(ph).hand) = 2

-----------------------------------------------------------------------------
(* C37: the cursor only moves forward within a round *)

\* a call of hit, stand, double_down, split or surrender that ends without
\* an error
SuccessfulPlay ==
    /\ state = "PLAYERS_TURN"
    /\ lastOp' \in PlayerOps
    /\ lastErr' = "none"

\* C37: after a successful hit, stand, double_down, split or surrender the
\* cursor is cleared or is not before the place it had; after a successful
\* stand, double_down or surrender it is cleared or strictly after that place.
C37_CursorForward ==
    [][SuccessfulPlay =>
        /\ CursorCleared' \/ LexLeq(Cursor, Cursor')
        /\ lastOp' \in {"stand", "double_down", "surrender"} =>
              CursorCleared' \/ (LexLeq(Cursor, Cursor') /\ Cursor' # Cursor)]_vars

\* a double_down on the first of two split hands that moved the cursor to
\* the second, and the players' turn goes on
C37_Witness ==
    /\ state = "PLAYERS_TURN"
    /\ lastOp = "double_down"
    /\ lastErr = "none"
    /\ current_hand_idx > 0

-----------------------------------------------------------------------------
(* C38: the dealer's hand during the players' turn *)

\* C38: in PLAYERS_TURN the dealer holds two cards; a call of hit, stand,
\* double_down, split or surrender leaves the dealer's hand as it was unless
\* the call ends the round, and a call in which the dealer draws is one made
\* in the players' turn that leaves every hand standing.
C38_DealerWaits ==
    [][/\ state = "PLAYERS_TURN" => Len(dealer) = 2
       /\ state' = "PLAYERS_TURN" => Len(dealer') = 2
       /\ lastOp' \in PlayerOps =>
             /\ state' # "ROUND_OVER" => dealer' = dealer
             /\ dealer' # dealer =>
                   /\ state = "PLAYERS_TURN"
                   /\ ~AllHandsStand(Tbl)
                   /\ AllHandsStand(Tbl)'
                   /\ Len(dealer') > Len(dealer)
                   /\ SubSeq(dealer', 1, Len(dealer)) = dealer]_vars

-----------------------------------------------------------------------------
(* C39: play without splits comes to an end *)

RECURSIVE HitsLeftOfHands(_)
\* a bound on the calls the hands of a list can still take: a hand that
\* does not stand has a hard total of at most 20, every hit adds at least 1
\* to it, and one more call stands it
HitsLeftOfHands(hs) ==
    IF Len(hs) = 0 THEN 0
    ELSE (IF HandStand(hs[1]) THEN 0 ELSE 22 - HardTotal(hs[1].hand))
         + HitsLeftOfHands(Tail(hs))

RECURSIVE HitsLeftOfPlayers(_)
HitsLeftOfPlayers(ps) ==
    IF Len(ps) = 0 THEN 0
    ELSE HitsLeftOfHands(ps[1].hands) + HitsLeftOfPlayers(Tail(ps))

\* hit, stand, double_down or surrender can be called and end without error
CanPlayOn ==
    \E o \in hit(Tbl) \cup stand(Tbl) \cup double_down(Tbl) \cup surrender(Tbl) :
        o.err = "none"

\* a successful hit, stand, double_down or surrender leaves the round over or
\* leaves the players' turn with fewer calls to take
PlayGoesDown ==
    (SuccessfulPlay /\ lastOp' # "split") =>
        \/ state' = "ROUND_OVER"
        \/ /\ state' = "PLAYERS_TURN"
           /\ HitsLeftOfPlayers(players') < HitsLeftOfPlayers(players)
           /\ HitsLeftOfPlayers(players') >= 0

\* C39: from a state of the players' turn every sequence of successful hit,
\* stand, double_down and surrender calls is finite and ends in ROUND_OVER:
\* every such call lowers a bound on the calls still to take or ends the
\* round, and as long as the players' turn lasts one of them can succeed.
C39_PlayWithoutSplitEnds ==
    [][/\ PlayGoesDown
       /\ state = "PLAYERS_TURN" => CanPlayOn]_vars

-----------------------------------------------------------------------------
(* C40: the check of _play_dealer_and_end_game never fires *)

\* C40: no call ends with PlayDealerFailure, and whenever _next_hand has run
\* out of hands and cleared the cursor for the dealer's play, every hand of
\* every player is standing.
C40_NoPlayDealerFailure ==
    /\ lastErr # "PlayDealerFailure"
    /\ (state \in {"DEALER_TURN", "ROUND_OVER"} /\ CursorCleared)
          => AllHandsStand(Tbl)

\* a round of three hands or more played to its end, the last call one of
\* the players' turn that ran out of hands
C40_Witness ==
    /\ state = "ROUND_OVER"
    /\ CursorCleared
    /\ lastOp \in PlayerOps
    /\ lastErr = "none"
    /\ Cardinality(HandIdx) >= 3
    /\ \E ph \in HandIdx : HandAt(ph).stood /\ HandTotal(HandAt(ph)) < 21

=============================================================================
